---- MODULE Spec2Model ----
(***************************************************************************)
(* A model of hyperspy/component.py (Parameter, Component): twinned,       *)
(* bounded parameters with observers, and the component that owns them.    *)
(* Python values are modelled as records [kind, e]: a scalar is            *)
(* [kind |-> "scalar", e |-> <<x>>], a tuple / list / numpy array is       *)
(* [kind |-> "tuple" / "list" / "array", e |-> <<x1, ..., xn>>].           *)
(* An optional number (a bound that may be None) is [some, v].             *)
(***************************************************************************)
EXTENDS Integers, Sequences, FiniteSets, TLC

\* ------------------------------------------------------------------ bounds
\* largest number_of_elements a parameter is given
MaxElems == 2
\* values assigned to parameters are drawn from -1 .. MaxVal
MaxVal == 3
\* largest number of cells a map is given
MaxCells == 2
\* largest number of bins of a histogram the adaptive binning returns, and
\* the largest count in its bins (the counts are 0, 1 and MaxCount)
MaxBins == 2
MaxCount == 2

\* ------------------------------------------------------------- the objects
None == "None"
\* three Parameter instances; A and B are owned by the component K1
\* (declaration order A, B), C is a stand-alone parameter (component None)
Params == {"A", "B", "C"}
Components == {"K1"}
parameters(c) == <<"A", "B">>
component(p) == IF p \in {"A", "B"} THEN "K1" ELSE None
\* the parameters a component owns
Owned(c) == {parameters(c)[i] : i \in 1..Len(parameters(c))}
\* the callbacks that get connected; f1 and f2 raise when called, g1 returns
Observers == {"f1", "f2", "g1"}
Raising == {"f1", "f2"}

VARIABLES
    number_of_elements,     \* Parameter.__number_of_elements, per instance
    value,                  \* Parameter.__value (the stored raw value)
    _bounds,                \* Parameter._bounds
    twin,                   \* Parameter.__twin
    _twins,                 \* Parameter._twins: ONE list, a class attribute
    connected_functions,    \* Parameter.connected_functions: ONE list, class attribute
    free,                   \* Parameter.__free
    twin_function,          \* which function p.twin_function is
    twin_inverse_function,  \* which function p.twin_inverse_function is
    ext_bounded,            \* Parameter.__ext_bounded
    ext_force_positive,     \* Parameter.__ext_force_positive
    comp_connected,         \* Component.connected_functions, per instance
    active,                 \* Component.__active
    free_parameters,        \* Component.free_parameters
    _nfree_param,           \* Component._nfree_param
    std,                    \* Parameter.std
    map,                    \* Parameter.map: None or the per-pixel array
    database,               \* Histogram_segmenter.database
    freq,                   \* the dict the last call returned, if it was most_frequent
    last                    \* the last call: operation, target, exception raised,
                            \* and the observers it invoked, in order

vars == <<number_of_elements, value, _bounds, twin, _twins, connected_functions,
          free, twin_function, twin_inverse_function, ext_bounded,
          ext_force_positive, comp_connected, active, free_parameters,
          _nfree_param, std, map, database, freq, last>>

paramvars == <<number_of_elements, value, _bounds, twin, _twins, connected_functions,
               free, twin_function, twin_inverse_function, ext_bounded,
               ext_force_positive>>
compvars == <<comp_connected, active, free_parameters, _nfree_param>>
mapvars == <<std, map>>
segvars == <<database, freq>>

\* ------------------------------------------------------------ Python values
Scalar(x) == [kind |-> "scalar", e |-> <<x>>]
Tuple(s) == [kind |-> "tuple", e |-> s]
List(s) == [kind |-> "list", e |-> s]
Array(s) == [kind |-> "array", e |-> s]
\* hasattr(arg, "__len__")
HasLen(a) == a.kind # "scalar"
\* tuple(arg)
AsTuple(a) == [kind |-> "tuple", e |-> a.e]
\* (0,) * n
Zeros(n) == Tuple([i \in 1..n |-> 0])

\* std = None, map = None
NoStd == [kind |-> "None", e |-> <<>>]
NoMap == [shape |-> [kind |-> "None", e |-> <<>>], noe |-> 0, cells |-> <<>>]
\* np.nan in a std field
NaN == 0 - (MaxVal + 1)

Some(x) == [some |-> TRUE, v |-> x]
NoBound == [some |-> FALSE, v |-> 0]

\* every sequence of length n over S
SeqsOf(S, n) == [1..n -> S]

Abs(x) == IF x < 0 THEN -x ELSE x
Min(x, y) == IF x <= y THEN x ELSE y
Max(x, y) == IF x >= y THEN x ELSE y

\* np.abs: a scalar stays a scalar, a sequence becomes an array
NpAbs(a) ==
    IF a.kind = "scalar" THEN Scalar(Abs(a.e[1]))
    ELSE Array([i \in 1..Len(a.e) |-> Abs(a.e[i])])

\* np.clip(a, lo, hi) with lo, hi optional numbers standing for
\* -inf / +inf (or a None argument) when absent; lo <= hi when both present
NpClip(a, lo, hi) ==
    Array([i \in 1..Len(a.e) |->
        LET x == a.e[i]
            y == IF lo.some THEN Max(x, lo.v) ELSE x
        IN  IF hi.some THEN Min(y, hi.v) ELSE y])

\* the functions that get assigned to twin_function / twin_inverse_function
\* on an instance: "id" is lambda x: x, "neg" negates elementwise
ApplyFn(k, a) ==
    IF k = "neg" THEN [kind |-> a.kind, e |-> [i \in 1..Len(a.e) |-> -a.e[i]]]
    ELSE a

\* list.remove(f): removes the first occurrence
Remove(s, f) ==
    LET i == CHOOSE j \in 1..Len(s) : s[j] = f /\ \A k \in 1..(j-1) : s[k] # f
    IN  [k \in 1..(Len(s)-1) |-> IF k < i THEN s[k] ELSE s[k+1]]
In(f, s) == \E i \in 1..Len(s) : s[i] = f

\* ------------------------------------------------------ Parameter: getters
\* _get_bmin / _get_bmax read from a _bounds attribute b: (bmin, bmax) for
\* one element (nested FALSE), ((bmin, bmax),) * n otherwise (nested TRUE);
\* pairs holds the pair(s)
bmin_in(b, n) == IF n = 1 THEN b.pairs[1].lo ELSE b.pairs[1].lo
bmax_in(b, n) == IF n = 1 THEN b.pairs[1].hi ELSE b.pairs[1].hi
_get_bmin(p) == bmin_in(_bounds[p], number_of_elements[p])
_get_bmax(p) == bmax_in(_bounds[p], number_of_elements[p])
\* (lo, hi)  and  ((lo, hi),) * n
Flat(lo, hi) == [nested |-> FALSE, pairs |-> <<[lo |-> lo, hi |-> hi]>>]
Nested(lo, hi, n) == [nested |-> TRUE, pairs |-> [i \in 1..n |-> [lo |-> lo, hi |-> hi]]]

Ok(v) == [raised |-> None, v |-> v]
Err(e) == [raised |-> e, v |-> Scalar(0)]

\* _getvalue: the stored value when untwinned, else
\* self.twin_function(self.twin.value).  The argument is evaluated first, so a
\* twin cycle recurses until Python's recursion limit (RuntimeError).  The
\* class attribute twin_function = lambda x: x is reached through the
\* instance as a bound method, so the call passes (self, value) to a
\* one-parameter lambda: TypeError.  A function assigned on the instance is
\* called with the value alone.
RECURSIVE getvalue_from(_, _)
getvalue_from(p, visited) ==
    IF twin[p] = None THEN Ok(value[p])
    ELSE IF twin[p] \in visited \cup {p} THEN Err("RuntimeError")
    ELSE LET r == getvalue_from(twin[p], visited \cup {p})
         IN  IF r.raised # None THEN r
             ELSE IF twin_function[p] = "default" THEN Err("TypeError")
             ELSE Ok(ApplyFn(twin_function[p], r.v))
_getvalue(p) == getvalue_from(p, {})

\* _getfree, from the free flags fr and the twins tw
getfree_in(fr, tw, p) == IF tw[p] = None THEN fr[p] ELSE FALSE
_getfree(p) == getfree_in(free, twin, p)

\* ------------------------------------------------- observer notification
\* for f in connected_functions: try: f() except: self.disconnect(f)
\* The list is iterated by position while disconnect removes from it: after
\* a removal the element that slides into the current position is skipped.
\* Returns the list left and the callbacks invoked, in order.
RECURSIVE NotifyLoop(_, _, _)
NotifyLoop(fs, i, called) ==
    IF i > Len(fs) THEN [fs |-> fs, called |-> called]
    ELSE LET f == fs[i]
         IN  IF f \in Raising
             THEN NotifyLoop(Remove(fs, f), i + 1, Append(called, f))
             ELSE NotifyLoop(fs, i + 1, Append(called, f))
Notify(fs) == NotifyLoop(fs, 1, <<>>)

\* for f in self.connected_functions: self.__twin.disconnect(f)
\* connected_functions is the one list every Parameter shares, so the twin's
\* disconnect removes from the list being iterated (and its own recursion
\* into its twin finds f already gone).
RECURSIVE DetachLoop(_, _)
DetachLoop(fs, i) ==
    IF i > Len(fs) THEN fs
    ELSE DetachLoop(Remove(fs, fs[i]), i + 1)

\* ------------------------------------------------- Parameter._setvalue
\* old_value != self.__value.  Scalars and tuples compare structurally; an
\* array compares elementwise (broadcasting), and the truth value of a
\* result of more than one element is a ValueError.
PyNe(old, new) ==
    IF old.kind # "array" /\ new.kind # "array"
    THEN IF old # new THEN "true" ELSE "false"
    ELSE IF Len(old.e) = 1 /\ Len(new.e) = 1
         THEN IF old.e[1] # new.e[1] THEN "true" ELSE "false"
         ELSE "ValueError"

\* arg <= self.bmin / arg >= self.bmax for a one-element parameter: numeric
\* for a scalar, elementwise for a one-element array, and for a tuple the
\* Python 2 ordering of a tuple against a number (the number is smaller)
LeBound(a, b) == IF a.kind = "tuple" THEN FALSE ELSE a.e[1] <= b.v
GeBound(a, b) == IF a.kind = "tuple" THEN TRUE ELSE a.e[1] >= b.v

\* the attributes _setvalue reads besides the twin chain: when a setter
\* re-assigns the value it does so after changing one of them
Policy(b, eb, efp) == [bounds |-> b, ext_bounded |-> eb, ext_force_positive |-> efp]
CurrentPolicy == Policy(_bounds, ext_bounded, ext_force_positive)

\* lines 146-167: the value stored for an untwinned parameter
Constrained(p, arg, pol) ==
    LET a == IF pol.ext_force_positive[p] THEN NpAbs(arg) ELSE arg
        bmin == bmin_in(pol.bounds[p], number_of_elements[p])
        bmax == bmax_in(pol.bounds[p], number_of_elements[p])
        v == IF ~pol.ext_bounded[p] THEN arg
             ELSE IF number_of_elements[p] = 1
                  THEN IF bmin.some /\ LeBound(a, bmin) THEN Scalar(bmin.v)
                       ELSE IF bmax.some /\ GeBound(a, bmax) THEN Scalar(bmax.v)
                       ELSE a
                  ELSE NpClip(a, IF bmin.some THEN bmin ELSE NoBound,
                                 IF bmin.some THEN bmax ELSE NoBound)
    IN  IF number_of_elements[p] # 1 /\ v.kind # "tuple" THEN AsTuple(v) ELSE v

\* an outcome of a call: the exception raised (None for a normal return),
\* the stored values and the shared observer list it leaves, and the
\* observers it invoked
Outcome(r, val, fs, called) == [raised |-> r, value |-> val, fs |-> fs, called |-> called]
\* nothing stored, nobody invoked: from the stored values val and the
\* observer list fs
Unchanged_in(val, fs, r) == Outcome(r, val, fs, <<>>)
Unchanged(r) == Unchanged_in(value, connected_functions, r)

\* lines 146-173, on the untwinned parameter p, from the stored values val0
\* and the observer list fs
Store_in(val0, fs, p, arg, pol) ==
    LET new == Constrained(p, arg, pol)
        val == [val0 EXCEPT ![p] = new]
        ne == PyNe(val0[p], new)
    IN  IF ne = "ValueError" THEN Outcome("ValueError", val, fs, <<>>)
        ELSE IF ne = "false" THEN Outcome(None, val, fs, <<>>)
        ELSE LET n == Notify(fs)
             IN  Outcome(None, val, n.fs, n.called)
Store(p, arg, pol) == Store_in(value, connected_functions, p, arg, pol)

\* the length check without its elif: a scalar passes whatever the length
LengthBad_sequences_only(p, arg) ==
    HasLen(arg) /\ Len(arg.e) # number_of_elements[p]
\* the length check made for multi-element parameters only
LengthBad_multi_only(p, arg) ==
    /\ number_of_elements[p] # 1
    /\ (HasLen(arg) => Len(arg.e) # number_of_elements[p])
\* lines 125-138: the length check
LengthBad(p, arg) ==
    IF HasLen(arg) THEN Len(arg.e) # number_of_elements[p]
    ELSE number_of_elements[p] # 1
\* the test of line 142 taken as always true
InverseDefined_always(p) == TRUE
\* line 142: self.twin_inverse_function is not None
InverseDefined(p) == twin_inverse_function[p] # "None"
\* lines 125-144: the length check, the conversion to a tuple, then through
\* the twin (whose own _setvalue runs the same code; a cycle of invertible
\* twins recurses until the recursion limit)
RECURSIVE setvalue_in(_, _, _, _, _, _)
setvalue_in(val, fs, p, arg0, visited, pol) ==
    LET arg == IF HasLen(arg0) /\ arg0.kind # "tuple" THEN AsTuple(arg0) ELSE arg0
    IN  IF LengthBad(p, arg0) THEN Unchanged_in(val, fs, "ValueError")
        ELSE IF twin[p] # None
        THEN IF ~InverseDefined(p) THEN Unchanged_in(val, fs, None)
             ELSE IF twin_inverse_function[p] = "default"
                  THEN Unchanged_in(val, fs, "TypeError")
             ELSE IF twin[p] \in visited \cup {p}
                  THEN Unchanged_in(val, fs, "RuntimeError")
             ELSE setvalue_in(val, fs, twin[p], ApplyFn(twin_inverse_function[p], arg),
                              visited \cup {p}, pol)
        ELSE Store_in(val, fs, p, arg, pol)
setvalue_from(p, arg0, visited, pol) ==
    setvalue_in(value, connected_functions, p, arg0, visited, pol)
setvalue_outcome(p, arg, pol) == setvalue_from(p, arg, {}, pol)

\* self.value = self.value, as the setters of bmin, bmax, ext_bounded and
\* ext_force_positive do after their change: the read may raise
reassign_outcome(p, pol) ==
    LET r == _getvalue(p)
    IN  IF r.raised # None THEN Unchanged(r.raised)
        ELSE setvalue_outcome(p, r.v, pol)

\* the record of a call: the operation, its target, its argument (a value
\* for a value assignment, the target for a twin assignment, the dict for
\* an update of the segmenter), the exception it raised and the observers it
\* invoked
Call(op, p, arg, t, raised, called) ==
    [op |-> op, p |-> p, arg |-> arg, t |-> t, raised |-> raised, called |-> called]
NoArg == Scalar(0)
Called(op, p, o) == Call(op, p, NoArg, None, o.raised, o.called)

\* p.value = arg
_setvalue(p, arg) ==
    LET o == setvalue_outcome(p, arg, CurrentPolicy)
    IN  /\ value' = o.value
        /\ connected_functions' = o.fs
        /\ last' = Call("setvalue", p, arg, None, o.raised, o.called)
        /\ UNCHANGED <<number_of_elements, _bounds, twin, _twins, free, twin_function,
                       twin_inverse_function, ext_bounded, ext_force_positive>>
        /\ UNCHANGED compvars
        /\ UNCHANGED <<mapvars, segvars>>

\* ------------------------------------------------ Parameter: other setters
\* p.bmin = b
_set_bmin(p, b) ==
    LET nb == IF number_of_elements[p] = 1 THEN Flat(b, _get_bmax(p))
              ELSE Nested(b, _get_bmax(p), number_of_elements[p])
        B == [_bounds EXCEPT ![p] = nb]
        o == reassign_outcome(p, Policy(B, ext_bounded, ext_force_positive))
    IN  /\ _bounds' = B
        /\ value' = o.value
        /\ connected_functions' = o.fs
        /\ last' = Called("set_bmin", p, o)
        /\ UNCHANGED <<number_of_elements, twin, _twins, free, twin_function,
                       twin_inverse_function, ext_bounded, ext_force_positive>>
        /\ UNCHANGED compvars
        /\ UNCHANGED <<mapvars, segvars>>

\* p.bmax = b
_set_bmax(p, b) ==
    LET nb == IF number_of_elements[p] = 1 THEN Flat(_get_bmin(p), b)
              ELSE Nested(_get_bmin(p), b, number_of_elements[p])
        B == [_bounds EXCEPT ![p] = nb]
        o == reassign_outcome(p, Policy(B, ext_bounded, ext_force_positive))
    IN  /\ _bounds' = B
        /\ value' = o.value
        /\ connected_functions' = o.fs
        /\ last' = Called("set_bmax", p, o)
        /\ UNCHANGED <<number_of_elements, twin, _twins, free, twin_function,
                       twin_inverse_function, ext_bounded, ext_force_positive>>
        /\ UNCHANGED compvars
        /\ UNCHANGED <<mapvars, segvars>>

\* p.ext_bounded = b
set_ext_bounded(p, b) ==
    LET EB == [ext_bounded EXCEPT ![p] = b]
        o == IF b # ext_bounded[p]
             THEN reassign_outcome(p, Policy(_bounds, EB, ext_force_positive))
             ELSE Unchanged(None)
    IN  /\ ext_bounded' = EB
        /\ value' = o.value
        /\ connected_functions' = o.fs
        /\ last' = Called("set_ext_bounded", p, o)
        /\ UNCHANGED <<number_of_elements, _bounds, twin, _twins, free, twin_function,
                       twin_inverse_function, ext_force_positive>>
        /\ UNCHANGED compvars
        /\ UNCHANGED <<mapvars, segvars>>

\* p.ext_force_positive = b
set_ext_force_positive(p, b) ==
    LET EFP == [ext_force_positive EXCEPT ![p] = b]
        o == IF b # ext_force_positive[p]
             THEN reassign_outcome(p, Policy(_bounds, ext_bounded, EFP))
             ELSE Unchanged(None)
    IN  /\ ext_force_positive' = EFP
        /\ value' = o.value
        /\ connected_functions' = o.fs
        /\ last' = Called("set_ext_force_positive", p, o)
        /\ UNCHANGED <<number_of_elements, _bounds, twin, _twins, free, twin_function,
                       twin_inverse_function, ext_bounded>>
        /\ UNCHANGED compvars
        /\ UNCHANGED <<mapvars, segvars>>

\* p._number_of_elements = n
set_number_of_elements(p, n) ==
    LET same == number_of_elements[p] = n
        bad == ~same /\ n <= 1
        done == ~same /\ ~bad
    IN  /\ number_of_elements' = IF done THEN [number_of_elements EXCEPT ![p] = n]
                                 ELSE number_of_elements
        /\ _bounds' = IF done
                      THEN [_bounds EXCEPT ![p] = Nested(_get_bmin(p), _get_bmax(p), n)]
                      ELSE _bounds
        /\ value' = IF done
                    THEN [value EXCEPT ![p] = IF n = 1 THEN Scalar(0) ELSE Zeros(n)]
                    ELSE value
        /\ last' = Call("set_number_of_elements", p, Scalar(n), None,
                         IF bad THEN "ValueError" ELSE None, <<>>)
        /\ UNCHANGED <<twin, _twins, connected_functions, free, twin_function,
                       twin_inverse_function, ext_bounded, ext_force_positive>>
        /\ UNCHANGED compvars
        /\ UNCHANGED <<mapvars, segvars>>

\* p.twin_function = tf ; p.twin_inverse_function = tif  (plain attributes)
assign_twin_functions(p, tf, tif) ==
    /\ twin_function' = [twin_function EXCEPT ![p] = tf]
    /\ twin_inverse_function' = [twin_inverse_function EXCEPT ![p] = tif]
    /\ last' = Call("assign_twin_functions", p, NoArg, None, None, <<>>)
    /\ UNCHANGED <<number_of_elements, value, _bounds, twin, _twins, connected_functions,
                   free, ext_bounded, ext_force_positive>>
    /\ UNCHANGED compvars
    /\ UNCHANGED <<mapvars, segvars>>

\* Parameter.connect on the shared list: append f when absent; the call on
\* the twin then finds f present
connect_list(fs, f) == IF In(f, fs) THEN fs ELSE Append(fs, f)
\* Parameter.disconnect on the shared list
disconnect_list(fs, f) == IF In(f, fs) THEN Remove(fs, f) ELSE fs

\* p.connect(f)
connect(p, f) ==
    /\ connected_functions' = connect_list(connected_functions, f)
    /\ last' = Call("connect", p, NoArg, None, None, <<>>)
    /\ UNCHANGED <<number_of_elements, value, _bounds, twin, _twins, free, twin_function,
                   twin_inverse_function, ext_bounded, ext_force_positive>>
    /\ UNCHANGED compvars
    /\ UNCHANGED <<mapvars, segvars>>

\* p.disconnect(f)
disconnect(p, f) ==
    /\ connected_functions' = disconnect_list(connected_functions, f)
    /\ last' = Call("disconnect", p, NoArg, None, None, <<>>)
    /\ UNCHANGED <<number_of_elements, value, _bounds, twin, _twins, free, twin_function,
                   twin_inverse_function, ext_bounded, ext_force_positive>>
    /\ UNCHANGED compvars
    /\ UNCHANGED <<mapvars, segvars>>

\* ----------------------------------------- Component._update_free_parameters
\* the free set and the count of free elements, from the free flags fr and
\* the twins tw
RECURSIVE SumElems(_)
SumElems(S) ==
    IF S = {} THEN 0
    ELSE LET q == CHOOSE x \in S : TRUE
         IN  number_of_elements[q] + SumElems(S \ {q})
\* the free set taken from the flags alone, twinned parameters included
FreeSet_flags_only(c, fr, tw) ==
    {q \in Params : /\ \E i \in 1..Len(parameters(c)) : parameters(c)[i] = q
                    /\ fr[q]}
\* lines 454-457 with _getfree (lines 177-181)
FreeSet(c, fr, tw) ==
    {q \in Params : /\ \E i \in 1..Len(parameters(c)) : parameters(c)[i] = q
                    /\ getfree_in(fr, tw, q)}
\* called through self.component when it is not None
_update_free_parameters(p, fr, tw) ==
    IF component(p) # None
    THEN /\ free_parameters' = [free_parameters EXCEPT
                                    ![component(p)] = FreeSet(component(p), fr, tw)]
         /\ _nfree_param' = [_nfree_param EXCEPT
                                    ![component(p)] = SumElems(FreeSet(component(p), fr, tw))]
    ELSE UNCHANGED <<free_parameters, _nfree_param>>

\* p.free = b
_setfree(p, b) ==
    /\ free' = [free EXCEPT ![p] = b]
    /\ _update_free_parameters(p, free', twin)
    /\ last' = Call("setfree", p, NoArg, None, None, <<>>)
    /\ UNCHANGED <<number_of_elements, value, _bounds, twin, _twins, connected_functions,
                   twin_function, twin_inverse_function, ext_bounded, ext_force_positive>>
    /\ UNCHANGED <<comp_connected, active>>
    /\ UNCHANGED <<mapvars, segvars>>

\* ------------------------------------------------------ Parameter._set_twin
\* for f in self.connected_functions: arg.connect(f)
RECURSIVE ConnectLoop(_, _)
ConnectLoop(fs, i) ==
    IF i > Len(fs) THEN fs
    ELSE ConnectLoop(connect_list(fs, fs[i]), i + 1)

\* t._twins: the class attribute _twins = [] is never rebound on an instance,
\* so every parameter's _twins is the one list of the class
twins_of(t) == _twins

\* p.twin = t, t a Parameter or None
_set_twin(p, t) ==
    LET r == _getvalue(p)
        clearing == t = None /\ twin[p] # None
        raises == clearing /\ r.raised # None
    IN  IF raises
        THEN /\ last' = Call("set_twin", p, NoArg, t, r.raised, <<>>)
             /\ UNCHANGED paramvars
             /\ UNCHANGED compvars
             /\ UNCHANGED <<mapvars, segvars>>
        ELSE /\ _twins' = IF clearing
                          THEN (IF In(p, _twins) THEN Remove(_twins, p) ELSE _twins)
                          ELSE IF t # None /\ ~In(p, _twins) THEN Append(_twins, p)
                          ELSE _twins
             /\ connected_functions' =
                          IF clearing
                          THEN (IF In(p, _twins) THEN DetachLoop(connected_functions, 1)
                                ELSE connected_functions)
                          ELSE IF t # None /\ ~In(p, _twins)
                          THEN ConnectLoop(connected_functions, 1)
                          ELSE connected_functions
             /\ value' = IF clearing THEN [value EXCEPT ![p] = r.v] ELSE value
             /\ twin' = [twin EXCEPT ![p] = t]
             /\ _update_free_parameters(p, free, twin')
             /\ last' = Call("set_twin", p, NoArg, t, None, <<>>)
             /\ UNCHANGED <<number_of_elements, _bounds, free, twin_function,
                            twin_inverse_function, ext_bounded, ext_force_positive>>
             /\ UNCHANGED <<comp_connected, active>>
             /\ UNCHANGED <<mapvars, segvars>>

\* ---------------------------------------------------------------- Component
\* c.connect(f)
comp_connect(c, f) ==
    /\ comp_connected' = [comp_connected EXCEPT ![c] = connect_list(comp_connected[c], f)]
    /\ last' = Call("comp_connect", c, NoArg, None, None, <<>>)
    /\ UNCHANGED paramvars
    /\ UNCHANGED <<active, free_parameters, _nfree_param>>
    /\ UNCHANGED <<mapvars, segvars>>

\* c.disconnect(f)
comp_disconnect(c, f) ==
    /\ comp_connected' = [comp_connected EXCEPT ![c] = disconnect_list(comp_connected[c], f)]
    /\ last' = Call("comp_disconnect", c, NoArg, None, None, <<>>)
    /\ UNCHANGED paramvars
    /\ UNCHANGED <<active, free_parameters, _nfree_param>>
    /\ UNCHANGED <<mapvars, segvars>>

\* c.active = b: stores, then notifies every time (no comparison with the
\* old value), with the same loop as Parameter
_set_active(c, b) ==
    LET n == Notify(comp_connected[c])
    IN  /\ active' = [active EXCEPT ![c] = b]
        /\ comp_connected' = [comp_connected EXCEPT ![c] = n.fs]
        /\ last' = Call("set_active", c, NoArg, None, None, n.called)
        /\ UNCHANGED paramvars
        /\ UNCHANGED <<free_parameters, _nfree_param>>
        /\ UNCHANGED <<mapvars, segvars>>

\* ------------------------------------------------------ Parameter: the map
\* A map is a structured array over a navigation shape; the shapes modelled
\* have one dimension, so the map is a sequence of cells, each with the
\* fields values and std (noe numbers, noe the element count of the dtype)
\* and is_set.  map.shape is a tuple whatever the shape it was created from.
\* np.zeros(shape, dtype_) followed by map['std'][:] = np.nan
NewMap(shape, n) ==
    [shape |-> AsTuple(shape), noe |-> n,
     cells |-> [i \in 1..shape.e[1] |->
                    [values |-> [k \in 1..n |-> 0],
                     std |-> [k \in 1..n |-> NaN],
                     is_set |-> FALSE]]]

\* lines 304-305: a single zero-length dimension becomes the list [1,]
NormalShape(shape) ==
    IF Len(shape.e) = 1 /\ shape.e[1] = 0 THEN List(<<1>>) ELSE shape

\* lines 309-310: the map is None, or its shape (a tuple) differs from the
\* shape passed (a tuple never equals a list), or its dtype differs (the
\* dtype depends on the number of elements only)
Reallocate(p, shape) ==
    \/ map[p] = NoMap
    \/ map[p].shape # NormalShape(shape)
    \/ map[p].noe # number_of_elements[p]

\* the map and the std create_array(shape) leaves on p
created_map(p, shape) ==
    IF Reallocate(p, shape) THEN NewMap(NormalShape(shape), number_of_elements[p])
    ELSE map[p]
created_std(p, shape) == IF Reallocate(p, shape) THEN NoStd ELSE std[p]

\* p.create_array(shape)
create_array(p, shape) ==
    /\ map' = [map EXCEPT ![p] = created_map(p, shape)]
    /\ std' = [std EXCEPT ![p] = created_std(p, shape)]
    /\ last' = Call("create_array", p, shape, None, None, <<>>)
    /\ UNCHANGED <<paramvars, compvars, segvars>>

\* c.create_arrays(shape): create_array on every parameter, in order
create_arrays(c, shape) ==
    /\ map' = [p \in Params |-> IF component(p) = c THEN created_map(p, shape)
                                ELSE map[p]]
    /\ std' = [p \in Params |-> IF component(p) = c THEN created_std(p, shape)
                                ELSE std[p]]
    /\ last' = Call("create_arrays", c, shape, None, None, <<>>)
    /\ UNCHANGED <<paramvars, compvars, segvars>>

\* p.std = s  (a plain attribute)
assign_std(p, s) ==
    /\ std' = [std EXCEPT ![p] = s]
    /\ last' = Call("assign_std", p, s, None, None, <<>>)
    /\ UNCHANGED <<map, paramvars, compvars, segvars>>

\* the cells an index tuple addresses: (i,) the cell i (counted from 0), the
\* empty tuple the whole array
Cells(m, idx) == IF idx = <<>> THEN 1..Len(m.cells) ELSE {idx[1] + 1}
\* IndexError: index out of bounds
IndexBad(m, idx) == idx # <<>> /\ idx[1] >= Len(m.cells)
\* the n numbers a field of n elements takes from an assigned value: the
\* value's own elements, or its single element broadcast
CanBroadcast(n, v) == Len(v.e) = n \/ Len(v.e) = 1
Broadcast(n, v) == IF Len(v.e) = n THEN v.e ELSE [k \in 1..n |-> v.e[1]]

\* lines 284-288 on the maps m: the right-hand side self.value is read
\* first; then each statement takes effect unless it raises
store_in(m, p, idx) ==
    LET r == _getvalue(p)
        m1 == [m EXCEPT ![p].cells = [i \in 1..Len(m[p].cells) |->
                    IF i \in Cells(m[p], idx)
                    THEN [m[p].cells[i] EXCEPT !.values = Broadcast(m[p].noe, r.v),
                                               !.is_set = TRUE]
                    ELSE m[p].cells[i]]]
        m2 == [m1 EXCEPT ![p].cells = [i \in 1..Len(m[p].cells) |->
                    IF i \in Cells(m[p], idx)
                    THEN [m1[p].cells[i] EXCEPT !.std = Broadcast(m[p].noe, std[p])]
                    ELSE m1[p].cells[i]]]
    IN  IF r.raised # None THEN [raised |-> r.raised, map |-> m]
        ELSE IF m[p] = NoMap THEN [raised |-> "TypeError", map |-> m]
        ELSE IF IndexBad(m[p], idx) THEN [raised |-> "IndexError", map |-> m]
        ELSE IF ~CanBroadcast(m[p].noe, r.v) THEN [raised |-> "ValueError", map |-> m]
        ELSE IF std[p] = NoStd THEN [raised |-> None, map |-> m1]
        ELSE IF ~CanBroadcast(m[p].noe, std[p]) THEN [raised |-> "ValueError", map |-> m1]
        ELSE [raised |-> None, map |-> m2]

\* p.store_current_value_in_array(indexes)
store_current_value_in_array(p, idx) ==
    LET o == store_in(map, p, idx)
    IN  /\ map' = o.map
        /\ last' = Call("store_current_value_in_array", p, Tuple(idx), None, o.raised, <<>>)
        /\ UNCHANGED <<std, paramvars, compvars, segvars>>

\* a mask: None, or a boolean array over the cells of the map
NoMask == [kind |-> "None", e |-> <<>>]
Mask(s) == [kind |-> "mask", e |-> s]
\* line 298-299: a missing mask is np.zeros(self.map.shape, dtype = 'bool')
DefaultMask(m, mask) ==
    IF mask = NoMask THEN Mask([i \in 1..Len(m.cells) |-> FALSE]) ELSE mask
\* the cells mask == False selects, and the position of cell i among them
Selected(mask) == {i \in 1..Len(mask.e) : mask.e[i] = FALSE}
Rank(sel, i) == Cardinality({j \in sel : j <= i})
\* values[mask == False] = v: the selection has shape (k,) for a field of one
\* element and (k, n) for a field of n; a scalar always broadcasts, a
\* sequence must have 1 or n elements (for n = 1: 1 or k, one per cell)
CanAssign(n, k, v) ==
    \/ v.kind = "scalar"
    \/ Len(v.e) = 1
    \/ (IF n = 1 THEN Len(v.e) = k ELSE Len(v.e) = n)
Assigned(n, sel, i, v) ==
    IF v.kind = "scalar" \/ Len(v.e) = 1 THEN [k \in 1..n |-> v.e[1]]
    ELSE IF n = 1 THEN <<v.e[Rank(sel, i)]>>
    ELSE v.e

\* lines 298-301 on the map m of p: with no mask, self.map.shape is read
\* first; the right-hand side self.value is read before self.map['values'];
\* the fields values and is_set are written, std is not
assign_all_in(m, p, mask) ==
    LET r == _getvalue(p)
        mk == DefaultMask(m, mask)
        sel == Selected(mk)
        m1 == [m EXCEPT !.cells = [i \in 1..Len(m.cells) |->
                    IF i \in sel
                    THEN [m.cells[i] EXCEPT
                            !.values = Assigned(m.noe, sel, i, r.v),
                            !.is_set = TRUE]
                    ELSE m.cells[i]]]
    IN  IF mask = NoMask /\ m = NoMap THEN [raised |-> "AttributeError", map |-> m]
        ELSE IF r.raised # None THEN [raised |-> r.raised, map |-> m]
        ELSE IF m = NoMap THEN [raised |-> "TypeError", map |-> m]
        ELSE IF ~CanAssign(m.noe, Cardinality(sel), r.v)
             THEN [raised |-> "ValueError", map |-> m]
        ELSE [raised |-> None, map |-> m1]

\* p.assign_current_value_to_all(mask)
assign_current_value_to_all(p, mask) ==
    LET o == assign_all_in(map[p], p, mask)
    IN  /\ map' = [map EXCEPT ![p] = o.map]
        /\ last' = Call("assign_current_value_to_all", p, mask, None, o.raised, <<>>)
        /\ UNCHANGED <<std, paramvars, compvars, segvars>>

\* --------------------------------------------------------- Component.charge
\* the orders a for loop can visit a collection in: a tuple is visited in
\* its own order; a set of Parameter objects (hashed by address) in an order
\* the program does not control
TupleOrder(t) == {t}
SetOrders(S) ==
    {o \in [1..Cardinality(S) -> S] : \A i, j \in 1..Cardinality(S) : i # j => o[i] # o[j]}

\* lines 471-474: self.free_parameters (a set) or self.parameters (a tuple)
ChargeOrders(c, onlyfree) ==
    IF onlyfree THEN SetOrders(free_parameters[c]) ELSE TupleOrder(parameters(c))

\* p[i] if lenght == 1 else p[i:i+lenght].tolist(), i counted from 0: an
\* index past the end is an IndexError, a slice past the end is cut short
EntryBad(pv, i, n) == n = 1 /\ i >= Len(pv)
Entry(pv, i, n) ==
    IF n = 1 THEN Scalar(pv[i + 1])
    ELSE List(SubSeq(pv, i + 1, Min(i + n, Len(pv))))

\* the result of a loop over parameters: the exception that ended it, the
\* stored values, observers and stds it leaves, the observers it invoked
LoopOutcome(r, val, fs, sd, called) ==
    [raised |-> r, value |-> val, fs |-> fs, std |-> sd, called |-> called]

\* lines 476-484: the loop from the k-th parameter of the order ord on, with
\* i entries consumed; ps is p_std, or NoStd for None
RECURSIVE ChargeLoop(_, _, _, _, _, _, _, _, _)
ChargeLoop(ord, k, i, pv, ps, val, fs, sd, called) ==
    IF k > Len(ord) THEN LoopOutcome(None, val, fs, sd, called)
    ELSE LET q == ord[k]
             n == number_of_elements[q]
             o == setvalue_in(val, fs, q, Entry(pv, i, n), {}, CurrentPolicy)
         IN  IF EntryBad(pv, i, n) THEN LoopOutcome("IndexError", val, fs, sd, called)
             ELSE IF o.raised # None
                  THEN LoopOutcome(o.raised, o.value, o.fs, sd, called \o o.called)
             ELSE IF ps = NoStd
                  THEN ChargeLoop(ord, k + 1, i + n, pv, ps, o.value, o.fs, sd,
                                  called \o o.called)
             ELSE IF EntryBad(ps.e, i, n)
                  THEN LoopOutcome("IndexError", o.value, o.fs, sd, called \o o.called)
             ELSE ChargeLoop(ord, k + 1, i + n, pv, ps, o.value, o.fs,
                             [sd EXCEPT ![q] = Entry(ps.e, i, n)], called \o o.called)

\* c.charge(p, p_std, onlyfree), p and p_std numpy arrays (p_std may be None)
charge(c, pv, ps, onlyfree) ==
    \E ord \in ChargeOrders(c, onlyfree) :
        LET o == ChargeLoop(ord, 1, 0, pv, ps, value, connected_functions, std, <<>>)
        IN  /\ value' = o.value
            /\ connected_functions' = o.fs
            /\ std' = o.std
            /\ last' = Call(IF onlyfree THEN "charge_onlyfree" ELSE "charge", c,
                             Array(pv), None, o.raised, o.called)
            /\ UNCHANGED <<number_of_elements, _bounds, twin, _twins, free, twin_function,
                           twin_inverse_function, ext_bounded, ext_force_positive>>
            /\ UNCHANGED <<map, compvars, segvars>>

\* ------------------------------------------- Component: the maps
\* if not indexes: indexes = (0,)
DefaultIndex(idx) == IF idx = <<>> THEN <<0>> ELSE idx

\* lines 494-495: store_current_value_in_array on every parameter, in order
RECURSIVE StoreLoop(_, _, _, _)
StoreLoop(ord, k, idx, m) ==
    IF k > Len(ord) THEN [raised |-> None, map |-> m]
    ELSE LET o == store_in(m, ord[k], idx)
         IN  IF o.raised # None THEN o
             ELSE StoreLoop(ord, k + 1, idx, o.map)

\* c.store_current_parameters_in_map(indexes)
store_current_parameters_in_map(c, idx) ==
    LET o == StoreLoop(parameters(c), 1, DefaultIndex(idx), map)
    IN  /\ map' = o.map
        /\ last' = Call("store_current_parameters_in_map", c, Tuple(idx), None,
                         o.raised, <<>>)
        /\ UNCHANGED <<std, paramvars, compvars, segvars>>

\* map['values'][indexes] and map['std'][indexes] of one cell: a number for
\* a field of one element, an array otherwise
Field(m, e) == IF m.noe = 1 THEN Scalar(e[1]) ELSE Array(e)

\* the untwinned parameters, whatever only_fixed
Restorable_all(c, only_fixed) == {q \in Owned(c) : twin[q] = None}
\* lines 500-506: set(self.parameters) - set(self.free_parameters) or
\* self.parameters, then those whose twin is None
Restorable(c, only_fixed) ==
    {q \in (IF only_fixed THEN Owned(c) \ free_parameters[c] ELSE Owned(c)) :
        twin[q] = None}
\* the orders the loop of line 507 can run in: the list is built from a set
\* when only_fixed is True, from the tuple otherwise
RestoreOrders(c, only_fixed) ==
    IF only_fixed THEN SetOrders(Restorable(c, only_fixed))
    ELSE TupleOrder(SelectSeq(parameters(c), LAMBDA q : q \in Restorable(c, only_fixed)))

\* lines 507-511: the loop from the k-th parameter of the order ord on
RECURSIVE RestoreLoop(_, _, _, _, _, _, _)
RestoreLoop(ord, k, idx, val, fs, sd, called) ==
    IF k > Len(ord) THEN LoopOutcome(None, val, fs, sd, called)
    ELSE LET q == ord[k]
             cell == map[q].cells[idx[1] + 1]
             o == setvalue_in(val, fs, q, Field(map[q], cell.values), {}, CurrentPolicy)
         IN  IF map[q] = NoMap THEN LoopOutcome("TypeError", val, fs, sd, called)
             ELSE IF IndexBad(map[q], idx)
                  THEN LoopOutcome("IndexError", val, fs, sd, called)
             ELSE IF ~cell.is_set
                  THEN RestoreLoop(ord, k + 1, idx, val, fs, sd, called)
             ELSE IF o.raised # None
                  THEN LoopOutcome(o.raised, o.value, o.fs, sd, called \o o.called)
             ELSE RestoreLoop(ord, k + 1, idx, o.value, o.fs,
                              [sd EXCEPT ![q] = Field(map[q], cell.std)],
                              called \o o.called)

\* c.charge_value_from_map(indexes, only_fixed)
charge_value_from_map(c, idx, only_fixed) ==
    \E ord \in RestoreOrders(c, only_fixed) :
        LET o == RestoreLoop(ord, 1, DefaultIndex(idx), value, connected_functions,
                             std, <<>>)
        IN  /\ value' = o.value
            /\ connected_functions' = o.fs
            /\ std' = o.std
            /\ last' = Call(IF only_fixed THEN "charge_value_from_map_only_fixed"
                             ELSE "charge_value_from_map", c,
                             Tuple(idx), None, o.raised, o.called)
            /\ UNCHANGED <<number_of_elements, _bounds, twin, _twins, free, twin_function,
                           twin_inverse_function, ext_bounded, ext_force_positive>>
            /\ UNCHANGED <<map, compvars, segvars>>

\* ------------------------------------------------------ Histogram_segmenter
\* (hyperspy/_samfire_utils/_segmenters/histogram.py)
\* A dict is a function from its keys; database and the value returned by
\* most_frequent are None or a dict of dicts.  A histogram is the pair
\* [hist, bin_edges] of sequences.  Ensembles hold integers, and bin edges
\* are kept in a unit that makes them integers.
NoDict == [some |-> FALSE, d |-> <<>>]
Dict(d) == [some |-> TRUE, d |-> d]
Histogram(h, e) == [hist |-> h, bin_edges |-> e]

\* self._min_points
_min_points == 4
\* max(10, self._min_points)
CoarseBins == Max(10, _min_points)

RECURSIVE SeqMin(_)
SeqMin(par) == IF Len(par) = 1 THEN par[1] ELSE Min(par[1], SeqMin(Tail(par)))
RECURSIVE SeqMax(_)
SeqMax(par) == IF Len(par) = 1 THEN par[1] ELSE Max(par[1], SeqMax(Tail(par)))

\* np.histogram(par, bins): bins equal-width bins over [min, max], over
\* [min - 0.5, max + 0.5] when min = max, over [0, 1] for an empty array;
\* the last bin includes max.  lo2 and hi2 are twice the ends of the range;
\* the edges are returned multiplied by 2 * bins.
np_histogram(par, bins) ==
    LET lo2 == IF Len(par) = 0 THEN 0
               ELSE IF SeqMin(par) = SeqMax(par) THEN 2 * SeqMin(par) - 1
               ELSE 2 * SeqMin(par)
        hi2 == IF Len(par) = 0 THEN 2
               ELSE IF SeqMin(par) = SeqMax(par) THEN 2 * SeqMax(par) + 1
               ELSE 2 * SeqMax(par)
        bin(x) == Min((bins * (2 * x - lo2)) \div (hi2 - lo2), bins - 1)
    IN  Histogram([k \in 1..bins |->
                        Cardinality({i \in 1..Len(par) : bin(par[i]) = k - 1})],
                  [k \in 1..(bins + 1) |-> bins * lo2 + (k - 1) * (hi2 - lo2)])

\* histogram(par, bins = self.bins) of hyperspy.external.astroML.histtools:
\* a pair (counts, edges) with one edge more than counts; which one is
\* decided by the binning rule, and any of these may come back
AdaptiveHistograms ==
    {Histogram(h, [k \in 1..(Len(h) + 1) |-> k * k]) :
        h \in UNION {SeqsOf({0, 1, MaxCount}, m) : m \in 0..MaxBins}}
histogram(par, out) == out

\* the database kept and updated with the new entries
Rebuilt_merged(old, d, out) ==
    [c \in DOMAIN d \cup (IF old.some THEN DOMAIN old.d ELSE {}) |->
        IF c \in DOMAIN d
        THEN [q \in DOMAIN d[c] |->
                IF Len(d[c][q]) <= _min_points THEN np_histogram(d[c][q], CoarseBins)
                ELSE histogram(d[c][q], out)]
        ELSE old.d[c]]
\* lines 60-68: self.database = {}, then one entry per component and
\* parameter of value_dict; out is what histogram returns
Rebuilt(old, d, out) ==
    [c \in DOMAIN d |->
        [q \in DOMAIN d[c] |->
            IF Len(d[c][q]) <= _min_points THEN np_histogram(d[c][q], CoarseBins)
            ELSE histogram(d[c][q], out)]]

\* segmenter.update(value_dict)
update(d) ==
    \E out \in AdaptiveHistograms :
        /\ database' = Dict(Rebuilt(database, d, out))
        /\ freq' = NoDict
        /\ last' = Call("update", "segmenter", d, None, None, <<>>)
        /\ UNCHANGED <<paramvars, compvars, mapvars>>

\* np.append(0, hist)
Prefixed_no_sentinel(h) == h
Prefixed(h) == <<0>> \o h
\* the element at position j (counted from 0) with mode = 'wrap'
WrapAt(d, j) == d[(j % Len(d)) + 1]
\* argrelextrema(d, np.greater, mode = 'wrap')[0]: the positions, counted
\* from 0 and ascending, whose element is greater than both neighbours
argrelextrema(d) ==
    SelectSeq([j \in 1..Len(d) |-> j - 1],
              LAMBDA j : WrapAt(d, j) > WrapAt(d, j - 1) /\ WrapAt(d, j) > WrapAt(d, j + 1))
\* bin_edges[k]: a negative k counts from the end; outside, IndexError
EdgeBad(e, k) == k >= Len(e) \/ k < 0 - Len(e)
EdgeAt(e, k) == IF k < 0 THEN e[Len(e) + k + 1] ELSE e[k + 1]
\* the edges lines 47-48 read for the histogram x
EdgesRead(x) ==
    LET m == argrelextrema(Prefixed(x.hist))
    IN  {m[i] : i \in 1..Len(m)} \cup {m[i] - 1 : i \in 1..Len(m)}
\* lines 40-48: 0.5 * (bin_edges[i] + bin_edges[i - 1]) for every maximum i,
\* kept doubled (the sum of the two edges)
middles_of_maxima(x) ==
    LET m == argrelextrema(Prefixed(x.hist))
    IN  [i \in 1..Len(m) |-> EdgeAt(x.bin_edges, m[i]) + EdgeAt(x.bin_edges, m[i] - 1)]

\* segmenter.most_frequent(): database None has no items()
most_frequent ==
    LET bad == \E c \in DOMAIN database.d : \E q \in DOMAIN database.d[c] :
                    \E k \in EdgesRead(database.d[c][q]) :
                        EdgeBad(database.d[c][q].bin_edges, k)
    IN  /\ freq' = IF ~database.some \/ bad THEN NoDict
                    ELSE Dict([c \in DOMAIN database.d |->
                                [q \in DOMAIN database.d[c] |->
                                    middles_of_maxima(database.d[c][q])]])
        /\ last' = Call("most_frequent", "segmenter", NoArg, None,
                         IF ~database.some THEN "AttributeError"
                         ELSE IF bad THEN "IndexError" ELSE None, <<>>)
        /\ UNCHANGED <<database, paramvars, compvars, mapvars>>

\* ------------------------------------------------------------------- Init
\* Component(["A", "B"]) and a stand-alone Parameter(): every parameter has
\* one element, value 0, bounds (None, None), no twin, free, the class-level
\* twin functions, no policy flag, std None and map None; no observer is
\* connected; the component is active and all its parameters are free; the
\* Histogram_segmenter has database None
Init ==
    /\ number_of_elements = [p \in Params |-> 1]
    /\ value = [p \in Params |-> Scalar(0)]
    /\ _bounds = [p \in Params |-> Flat(NoBound, NoBound)]
    /\ twin = [p \in Params |-> None]
    /\ _twins = <<>>
    /\ connected_functions = <<>>
    /\ free = [p \in Params |-> TRUE]
    /\ twin_function = [p \in Params |-> "default"]
    /\ twin_inverse_function = [p \in Params |-> "default"]
    /\ ext_bounded = [p \in Params |-> FALSE]
    /\ ext_force_positive = [p \in Params |-> FALSE]
    /\ comp_connected = [c \in Components |-> <<>>]
    /\ active = [c \in Components |-> TRUE]
    /\ free_parameters = [c \in Components |->
                              {parameters(c)[i] : i \in 1..Len(parameters(c))}]
    /\ _nfree_param = [c \in Components |-> Len(parameters(c))]
    /\ std = [p \in Params |-> NoStd]
    /\ map = [p \in Params |-> NoMap]
    /\ database = NoDict
    /\ freq = NoDict
    /\ last = Call("init", None, NoArg, None, None, <<>>)

\* --------------------------------------------------------- specifications
\* the values assigned
Vals == (-1)..MaxVal
\* the elements of the sequences assigned: below, inside and above [0, 2]
ElemVals == {-1, 1, MaxVal}
\* the arguments of a value assignment: every scalar, every tuple of 1 to
\* MaxElems elements, the lists of zeros of 0 to MaxElems + 1 elements
ValueArgs ==
    {Scalar(x) : x \in Vals}
    \cup {Tuple(e) : e \in UNION {SeqsOf(ElemVals, n) : n \in 1..MaxElems}}
    \cup {List([i \in 1..n |-> 0]) : n \in 0..(MaxElems + 1)}
\* the bounds assigned: bmin is None or 0, bmax is None or 2
BminArgs == {NoBound, Some(0)}
BmaxArgs == {NoBound, Some(2)}

\* One parameter, A, under every policy: value assignments, bounds, the two
\* policy flags, the number of elements, an observer, and a twin (B) it can
\* be attached to and detached from.
NextValue ==
    \/ \E arg \in ValueArgs : _setvalue("A", arg)
    \/ \E n \in 0..MaxElems : set_number_of_elements("A", n)
    \/ \E b \in BminArgs : _set_bmin("A", b)
    \/ \E b \in BmaxArgs : _set_bmax("A", b)
    \/ \E b \in BOOLEAN : set_ext_bounded("A", b)
    \/ \E b \in BOOLEAN : set_ext_force_positive("A", b)
    \/ connect("A", "g1")
SpecValue == Init /\ [][NextValue]_vars

\* The twin graph: A and B are attached to and detached from any parameter
\* (themselves included), given assigned twin functions (the identity with
\* its inverse, or a negation with no inverse), and every parameter is
\* assigned scalars and a two-element list; one observer is connected.
TwinArgs == {Scalar(-1), Scalar(1), List(<<0, 0>>)}
TwinFunctionArgs == {<<"id", "id">>, <<"neg", "None">>}
NextTwin ==
    \/ \E p \in Params : \E arg \in TwinArgs : _setvalue(p, arg)
    \/ \E p \in {"A", "B"} : \E t \in Params \cup {None} : _set_twin(p, t)
    \/ \E p \in {"A", "B"} : \E fp \in TwinFunctionArgs :
            assign_twin_functions(p, fp[1], fp[2])
    \/ connect("A", "g1")
SpecTwin == Init /\ [][NextTwin]_vars

\* The free set: every parameter's free flag and twin are assigned, and the
\* identity is assigned as twin function so that detaching succeeds.
NextFree ==
    \/ \E p \in Params : \E b \in BOOLEAN : _setfree(p, b)
    \/ \E p \in Params : \E t \in Params \cup {None} : _set_twin(p, t)
    \/ \E p \in Params : assign_twin_functions(p, "id", "id")
SpecFree == Init /\ [][NextFree]_vars

\* Lengths: A is given 1 to MaxElems elements, attached to and detached from
\* B through the identity, observed by f1 and g1, and assigned a scalar and
\* every sequence over {0, 1} of 0 to MaxElems + 1 elements, as a tuple;
\* B is assigned scalars.
LenArgs ==
    {Scalar(1)}
    \cup {Tuple(e) : e \in UNION {SeqsOf({0, 1}, n) : n \in 0..(MaxElems + 1)}}
NextLen ==
    \/ \E arg \in LenArgs : _setvalue("A", arg)
    \/ \E x \in {0, 1} : _setvalue("B", Scalar(x))
    \/ \E n \in 1..MaxElems : set_number_of_elements("A", n)
    \/ \E t \in {"B", None} : _set_twin("A", t)
    \/ assign_twin_functions("A", "id", "id")
    \/ \E f \in {"f1", "g1"} : connect("A", f)
SpecLen == Init /\ [][NextLen]_vars

\* Observers: every callback is connected to and disconnected from the
\* parameter A and the component K1, A's value is changed and K1 toggled.
NextObs ==
    \/ \E f \in Observers : connect("A", f)
    \/ \E f \in Observers : disconnect("A", f)
    \/ \E x \in {0, 1} : _setvalue("A", Scalar(x))
    \/ \E f \in Observers : comp_connect("K1", f)
    \/ \E f \in Observers : comp_disconnect("K1", f)
    \/ \E b \in BOOLEAN : _set_active("K1", b)
SpecObs == Init /\ [][NextObs]_vars

\* Two parameters with no twin link, A and the stand-alone C: callbacks are
\* connected to A only and disconnected from C only, and both are assigned
\* values.
NextShare ==
    \/ \E f \in Observers : connect("A", f)
    \/ \E f \in Observers : disconnect("C", f)
    \/ \E x \in {0, 1} : _setvalue("A", Scalar(x))
    \/ \E x \in {0, 1} : _setvalue("C", Scalar(x))
SpecShare == Init /\ [][NextShare]_vars

\* The map of one parameter: A is given 1 to MaxElems elements, a value, a
\* std, and a map of up to MaxCells cells from a shape passed as a tuple or
\* as a list (the zero-length shape included); its value is stored in cells.
ShapeArgs ==
    {Tuple(<<d>>) : d \in 0..MaxCells} \cup {List(<<d>>) : d \in 0..MaxCells}
IndexArgs == {<<i>> : i \in 0..(MaxCells - 1)}
StdArgs == {NoStd, Scalar(1)}
\* the masks passed: none, or a boolean array of the shape of the map
MaskArgs(p) == {NoMask} \cup {Mask(s) : s \in SeqsOf(BOOLEAN, Len(map[p].cells))}
NextArray ==
    \/ \E shape \in ShapeArgs : create_array("A", shape)
    \/ \E x \in {0, 1} : _setvalue("A", Scalar(x))
    \/ _setvalue("A", Tuple(<<1, 1>>))
    \/ \E sd \in StdArgs : assign_std("A", sd)
    \/ \E idx \in IndexArgs : store_current_value_in_array("A", idx)
    \/ \E n \in 1..MaxElems : set_number_of_elements("A", n)
    \/ \E mask \in MaskArgs("A") : assign_current_value_to_all("A", mask)
SpecArray == Init /\ [][NextArray]_vars

\* charge: the component K1 is charged with the vectors (1, 2, ..) and
\* (1, 1, ..) (with the same vector as p_std, or none) that have one entry
\* per element of the targeted parameters, as the caller must provide; A is
\* given 1 to MaxElems elements, A and B are freed and fixed, and B is
\* twinned to A.
Targeted(c, onlyfree) == IF onlyfree THEN free_parameters[c] ELSE Owned(c)
ChargeVectors(n) == {[i \in 1..n |-> i], [i \in 1..n |-> 1]}
NextCharge ==
    \/ \E onlyfree \in BOOLEAN :
        \E pv \in ChargeVectors(SumElems(Targeted("K1", onlyfree))) :
        \E ps \in {NoStd, Array(pv)} :
            charge("K1", pv, ps, onlyfree)
    \/ \E n \in 1..MaxElems : set_number_of_elements("A", n)
    \/ \E p \in {"A", "B"} : \E b \in BOOLEAN : _setfree(p, b)
    \/ \E t \in {"A", None} : _set_twin("B", t)
    \/ assign_twin_functions("B", "id", "id")
SpecCharge == Init /\ [][NextCharge]_vars

\* The maps of a component: K1 gets maps of MaxCells cells for its
\* parameters; A and B are assigned the value 1, freed and fixed, A is
\* assigned a std and B is twinned to A; the current values are stored in
\* the first cell (the empty coordinate) or the last one, and charged back
\* from there.
MapIndexArgs == {<<>>, <<MaxCells - 1>>}
NextMap ==
    \/ create_arrays("K1", Tuple(<<MaxCells>>))
    \/ \E p \in {"A", "B"} : _setvalue(p, Scalar(1))
    \/ assign_std("A", Scalar(1))
    \/ \E idx \in MapIndexArgs : store_current_parameters_in_map("K1", idx)
    \/ \E idx \in MapIndexArgs : \E only_fixed \in BOOLEAN :
            charge_value_from_map("K1", idx, only_fixed)
    \/ \E p \in {"A", "B"} : \E b \in BOOLEAN : _setfree(p, b)
    \/ _set_twin("B", "A")
SpecMap == Init /\ [][NextMap]_vars

\* The segmenter: update is called with dicts of one or two components of
\* one or two parameters, whose ensembles are empty, constant, spread (these
\* of at most _min_points values) or larger than _min_points; most_frequent
\* is called at any time.
Ensembles == {<<>>, <<1, 1>>, <<0, 2, 2>>, [i \in 1..(_min_points + 1) |-> i % 2]}
ValueDicts ==
    UNION {[C -> [{"a"} -> Ensembles]] : C \in {{"c1"}, {"c2"}, {"c1", "c2"}}}
    \cup [{"c1"} -> [{"a", "b"} -> Ensembles]]
NextSeg ==
    \/ \E d \in ValueDicts : update(d)
    \/ most_frequent
SpecSeg == Init /\ [][NextSeg]_vars

\* The bounds of one parameter, A, over every operation that stores a value:
\* value assignments, bounds, the two policy flags, the number of elements,
\* and a twin (B, holding any value) that A is attached to and detached from.
BoundedArgs ==
    {Scalar(x) : x \in {-1, 1, MaxVal}}
    \cup {Tuple([i \in 1..n |-> x]) : n \in 2..MaxElems, x \in {-1, MaxVal}}
NextBounds ==
    \/ \E arg \in BoundedArgs : _setvalue("A", arg)
    \/ \E x \in {-1, MaxVal} : _setvalue("B", Scalar(x))
    \/ \E n \in 1..MaxElems : set_number_of_elements("A", n)
    \/ \E b \in BminArgs : _set_bmin("A", b)
    \/ \E b \in BmaxArgs : _set_bmax("A", b)
    \/ \E b \in BOOLEAN : set_ext_bounded("A", b)
    \/ \E b \in BOOLEAN : set_ext_force_positive("A", b)
    \/ assign_twin_functions("A", "id", "id")
    \/ \E t \in {"B", None} : _set_twin("A", t)
SpecBounds == Init /\ [][NextBounds]_vars

\* ------------------------------------------------------------------ claims
\* elementwise absolute value, and elementwise min(max(v, lo), hi) with an
\* absent bound not constraining: what the claims say is stored
AbsElems(e) == [i \in 1..Len(e) |-> Abs(e[i])]
ClipElems(e, lo, hi) ==
    [i \in 1..Len(e) |->
        LET y == IF lo.some THEN Max(e[i], lo.v) ELSE e[i]
        IN  IF hi.some THEN Min(y, hi.v) ELSE y]
\* the last call was a value assignment to an untwinned parameter that
\* returned normally
StoredBy(p) ==
    /\ last.op = "setvalue" /\ last.p = p
    /\ twin[p] = None
    /\ last.raised = None

\* C3: force-positive.  After assigning v to an untwinned parameter with
\* ext_force_positive = True the stored value is the elementwise absolute
\* value of v when ext_bounded is False, and that absolute value clipped to
\* the bounds when ext_bounded is True.
C3_ForcePositive ==
    \A p \in Params :
        (StoredBy(p) /\ ext_force_positive[p]) =>
            IF ext_bounded[p]
            THEN value[p].e = ClipElems(AbsElems(last.arg.e), _get_bmin(p), _get_bmax(p))
            ELSE value[p].e = AbsElems(last.arg.e)

\* C4: bound clipping.  After assigning v (a scalar to a one-element
\* parameter, a sequence to a multi-element one) to an untwinned parameter
\* with ext_bounded = True and no force-positive, every stored element is
\* min(max(v, bmin), bmax), a bound that is None not constraining.
C4_BoundClipping ==
    \A p \in Params :
        (/\ StoredBy(p) /\ ext_bounded[p] /\ ~ext_force_positive[p]
         /\ (number_of_elements[p] = 1 => last.arg.kind = "scalar")) =>
            value[p].e = ClipElems(last.arg.e, _get_bmin(p), _get_bmax(p))

\* C10: setting number_of_elements to n raises for n < 1 and is accepted for
\* every n >= 1; after an accepted change to n > 1 the value is n zeros and
\* the bounds are n copies of the pair (bmin, bmax).
C10_NumberOfElements ==
    [][\A p \in Params : \A n \in 0..(MaxElems + 1) :
        set_number_of_elements(p, n) =>
            IF n < 1 THEN last'.raised = "ValueError" /\ UNCHANGED paramvars
            ELSE /\ last'.raised = None
                 /\ number_of_elements'[p] = n
                 /\ (n # number_of_elements[p] /\ n > 1) =>
                        /\ value'[p] = Zeros(n)
                        /\ _bounds'[p] = Nested(_get_bmin(p), _get_bmax(p), n)]_vars

\* the parameters reached from p by following twin links
RECURSIVE TwinReach(_, _)
TwinReach(S, k) ==
    IF k = 0 THEN S
    ELSE TwinReach(S \cup ({twin[q] : q \in S} \ {None}), k - 1)
Reach(p) == TwinReach({twin[p]} \ {None}, Cardinality(Params))

\* the twin function the claims speak of: the default is the identity
ClaimTwinFunction(p, v) ==
    IF twin_function[p] = "default" THEN v ELSE ApplyFn(twin_function[p], v)

\* C1: twin propagation.  Whenever A.twin = B and B is untwinned, reading
\* A.value returns twin_function(B.value) for the current B.value, with the
\* default (identity) twin function or an assigned one.
C1_TwinPropagation ==
    \A a \in Params :
        (twin[a] # None /\ twin[twin[a]] = None) =>
            _getvalue(a) = Ok(ClaimTwinFunction(a, value[twin[a]]))

\* C5: detach snapshot.  A.twin = None on a parameter twinned to an untwinned
\* B detaches it and leaves A.value equal to the value derived from B just
\* before; afterwards an assignment to the value of another parameter that
\* is not linked to A leaves A.value as it is.
C5_DetachSnapshot ==
    [][\A a \in Params :
        /\ (twin[a] # None /\ twin[twin[a]] = None /\ _set_twin(a, None)) =>
                /\ twin'[a] = None
                /\ last'.raised = None
                /\ value'[a] = ClaimTwinFunction(a, value[twin[a]])
        /\ \A b \in Params \ {a} : \A arg \in TwinArgs :
                (twin[a] = None /\ a \notin Reach(b) /\ _setvalue(b, arg)) =>
                    value'[a] = value[a]]_vars

\* C8: twin-cycle rejection.  No parameter is reachable from itself by
\* following twin links, so every read of a value terminates.
C8_TwinAcyclic ==
    \A p \in Params : p \notin Reach(p) /\ _getvalue(p).raised # "RuntimeError"

\* C9: irreversible-twin write.  Assigning a length-valid value to a twinned
\* parameter whose twin_inverse_function is None raises nothing, invokes no
\* observer and changes no stored value, no value as read and no observer
\* list.
C9_IrreversibleTwinWrite ==
    [][\A p \in Params : \A arg \in TwinArgs :
        (/\ twin[p] # None /\ twin_inverse_function[p] = "None"
         /\ ~LengthBad(p, arg)
         /\ _setvalue(p, arg)) =>
            /\ last'.raised = None
            /\ last'.called = <<>>
            /\ value' = value
            /\ connected_functions' = connected_functions
            /\ comp_connected' = comp_connected
            /\ \A q \in Params : _getvalue(q)' = _getvalue(q)]_vars
\* a write of a value other than the one read was ignored, with an observer
\* connected
C9_Witness ==
    /\ last.op = "setvalue" /\ last.raised = None
    /\ twin[last.p] # None /\ twin_inverse_function[last.p] = "None"
    /\ _getvalue(last.p).raised = None /\ _getvalue(last.p).v # last.arg
    /\ connected_functions # <<>>

\* C2: free-parameter set.  In every state the free_parameters of a
\* component are exactly its parameters whose own free flag is true and
\* whose twin is None.
C2_FreeParameters ==
    \A c \in Components :
        free_parameters[c] = {q \in Owned(c) : free[q] /\ twin[q] = None}
\* after a twin assignment, B is flagged free but twinned, and only A is free
C2_Witness ==
    /\ last.op = "set_twin" /\ last.raised = None
    /\ free["A"] /\ twin["A"] = None
    /\ free["B"] /\ twin["B"] # None
    /\ free_parameters["K1"] = {"A"}

\* C6: length mismatch.  Assigning to a parameter of n > 1 elements a scalar
\* or a sequence of another length raises ValueError, invokes no observer,
\* and leaves every stored value (the twin's too) and every observer list.
C6_LengthMismatch ==
    [][\A p \in Params : \A arg \in LenArgs :
        (/\ number_of_elements[p] > 1
         /\ (arg.kind = "scalar" \/ Len(arg.e) # number_of_elements[p])
         /\ _setvalue(p, arg)) =>
            /\ last'.raised = "ValueError"
            /\ last'.called = <<>>
            /\ value' = value
            /\ connected_functions' = connected_functions
            /\ comp_connected' = comp_connected]_vars
\* a rejected assignment to a multi-element parameter that holds a value
\* other than zeros, has an invertible twin and observers
C6_Witness ==
    /\ last.op = "setvalue" /\ last.raised = "ValueError"
    /\ number_of_elements[last.p] > 1
    /\ (last.arg.kind = "scalar" \/ Len(last.arg.e) # number_of_elements[last.p])
    /\ twin[last.p] # None /\ twin_inverse_function[last.p] = "id"
    /\ value[last.p] # Zeros(number_of_elements[last.p])
    /\ Len(connected_functions) > 1

\* C7: observer fault isolation.  A value change of a parameter, and a toggle
\* of a component's active flag, invokes every registered observer once, in
\* registration order, leaves exactly the observers that did not raise
\* registered, and completes the assignment.
NotRaising(f) == f \notin Raising
C7_ObserverFaultIsolation ==
    [][/\ \A p \in Params : \A x \in {0, 1} :
            (twin[p] = None /\ value[p] # Scalar(x) /\ _setvalue(p, Scalar(x))) =>
                /\ last'.called = connected_functions
                /\ connected_functions' = SelectSeq(connected_functions, NotRaising)
                /\ value'[p] = Scalar(x)
                /\ last'.raised = None
       /\ \A c \in Components : \A b \in BOOLEAN :
            _set_active(c, b) =>
                /\ last'.called = comp_connected[c]
                /\ comp_connected'[c] = SelectSeq(comp_connected[c], NotRaising)
                /\ active'[c] = b]_vars

\* the number of elements a value has, a scalar counting as one
NumElems(v) == Len(v.e)

\* C11: length invariant.  In every reachable state the effective value of
\* every parameter (the value as read, for a twinned parameter the one
\* derived from its twin) has exactly number_of_elements elements, also
\* when the parameter is twinned to one of another number_of_elements.
C11_LengthInvariant ==
    \A p \in Params :
        _getvalue(p).raised = None =>
            NumElems(_getvalue(p).v) = number_of_elements[p]

\* C16 as stated: a parameter with number_of_elements = 1 rejects, with a
\* length-mismatch error and no state change, every assigned input that
\* exposes a length, a sequence of length 1 included.
C16_RejectsEveryLength ==
    [][\A p \in Params : \A arg \in LenArgs :
        (number_of_elements[p] = 1 /\ HasLen(arg) /\ _setvalue(p, arg)) =>
            /\ last'.raised = "ValueError"
            /\ value' = value
            /\ connected_functions' = connected_functions]_vars

\* C16, amended: a parameter with number_of_elements = 1 rejects, with a
\* length-mismatch error, no observer call and no state change, every
\* assigned input that exposes a length other than 1; a sequence of length 1
\* passes the length check, and an untwinned parameter stores it as a tuple
\* of one element.
C16_SingleElementLength ==
    [][\A p \in Params : \A arg \in LenArgs :
        (number_of_elements[p] = 1 /\ HasLen(arg) /\ _setvalue(p, arg)) =>
            IF Len(arg.e) # 1
            THEN /\ last'.raised = "ValueError"
                 /\ last'.called = <<>>
                 /\ value' = value
                 /\ connected_functions' = connected_functions
                 /\ comp_connected' = comp_connected
            ELSE /\ last'.raised # "ValueError"
                 /\ twin[p] = None =>
                        /\ last'.raised = None
                        /\ value'[p] = Tuple(arg.e)]_vars
\* a sequence of two elements was rejected by a one-element parameter that
\* holds a one-element tuple assigned before, with an observer connected
C16_Witness ==
    /\ last.op = "setvalue" /\ last.raised = "ValueError"
    /\ number_of_elements[last.p] = 1
    /\ HasLen(last.arg) /\ Len(last.arg.e) > 1
    /\ twin[last.p] = None
    /\ value[last.p] = Tuple(<<1>>)
    /\ connected_functions # <<>>

\* every element of e lies within [lo, hi], an absent bound not constraining
Within(e, lo, hi) ==
    \A i \in 1..Len(e) : /\ lo.some => e[i] >= lo.v
                         /\ hi.some => e[i] <= hi.v

\* C17: the bound setters re-apply the policy.  On an untwinned parameter
\* with ext_bounded = True (holding a scalar when it has one element, a
\* sequence otherwise), right after assigning bmin or bmax the stored value
\* lies within the new bounds; assigning bounds equal to the current ones
\* leaves a conforming value as it is and invokes no observer.
C17_BoundSetters ==
    [][\A p \in Params : \A b \in BminArgs \cup BmaxArgs :
        (/\ twin[p] = None /\ ext_bounded[p]
         /\ (number_of_elements[p] = 1 => value[p].kind = "scalar")
         /\ (_set_bmin(p, b) \/ _set_bmax(p, b))) =>
            /\ last'.raised = None
            /\ Within(value'[p].e, _get_bmin(p)', _get_bmax(p)')
            /\ (_bounds'[p] = _bounds[p]
                    /\ Within(value[p].e, _get_bmin(p), _get_bmax(p))) =>
                        /\ value'[p].e = value[p].e
                        /\ last'.called = <<>>]_vars

\* C18: observer containers are per instance.  A and C have no twin link and
\* callbacks are connected to A only: a change of C.value invokes none of
\* them, and disconnecting a callback from C removes nothing from the
\* callbacks registered on A.
C18_ObserversPerInstance ==
    [][/\ \A x \in {0, 1} :
            _setvalue("C", Scalar(x)) => last'.called = <<>>
       /\ \A f \in Observers :
            disconnect("C", f) => connected_functions' = connected_functions]_vars

\* C19: observer hand-over on twin changes.  A.twin = T keeps every observer
\* registered and has them notified on a change of T; A.twin = None keeps
\* every observer that is registered on A or directly on T registered there.
\* (Callbacks are connected to A only.)
C19_ObserverHandOver ==
    [][\A a \in Params : \A t \in Params \cup {None} :
        (_set_twin(a, t) /\ last'.raised = None) =>
            \A f \in Observers :
                In(f, connected_functions) => In(f, connected_functions')]_vars

\* C20: create_array is idempotent.  Calling create_array(shape) on a
\* parameter whose map already has that shape (a single zero-length
\* dimension standing for one cell) and the parameter's element count leaves
\* the map (values, std, is_set) and the parameter's std as they are, in
\* whatever form the shape is passed.
C20_CreateArrayIdempotent ==
    [][\A p \in Params : \A shape \in ShapeArgs :
        (/\ map[p] # NoMap
         /\ map[p].shape.e = NormalShape(shape).e
         /\ map[p].noe = number_of_elements[p]
         /\ create_array(p, shape)) =>
            /\ map'[p] = map[p]
            /\ std'[p] = std[p]]_vars

\* the targeted parameters declared before q, and the entries of pv that
\* belong to q: number_of_elements[q] entries from the sum of the numbers of
\* elements of the targeted parameters declared before it
DeclaredBefore(c, q) ==
    {parameters(c)[i] : i \in {j \in 1..Len(parameters(c)) :
        \E k \in (j + 1)..Len(parameters(c)) : parameters(c)[k] = q}}
Offset(c, q, onlyfree) == SumElems(DeclaredBefore(c, q) \cap Targeted(c, onlyfree))
Slice(c, q, onlyfree, pv) ==
    SubSeq(pv, Offset(c, q, onlyfree) + 1, Offset(c, q, onlyfree) + number_of_elements[q])

\* C12: charge(p, p_std, onlyfree) fills the targeted parameters (all, or
\* the free ones when onlyfree is True) in declaration order: with every
\* targeted parameter untwinned, the k-th one ends with the consecutive
\* entries of p that start at the sum of the numbers of elements of the
\* targeted parameters declared before it, and its std with the same slice
\* of p_std.
C12_ChargeOrder ==
    [][\A c \in Components : \A onlyfree \in BOOLEAN :
       \A pv \in ChargeVectors(SumElems(Targeted(c, onlyfree))) :
       \A ps \in {NoStd, Array(pv)} :
        (/\ \A q \in Targeted(c, onlyfree) : twin[q] = None
         /\ charge(c, pv, ps, onlyfree)) =>
            /\ last'.raised = None
            /\ \A q \in Targeted(c, onlyfree) :
                /\ value'[q].e = Slice(c, q, onlyfree, pv)
                /\ ps # NoStd => std'[q].e = Slice(c, q, onlyfree, ps.e)]_vars

C14_DatabaseReplaced ==
    [][/\ last'.op = "update" =>
            /\ database'.some
            /\ DOMAIN database'.d = DOMAIN last'.arg
            /\ \A c \in DOMAIN last'.arg :
                /\ DOMAIN database'.d[c] = DOMAIN last'.arg[c]
                /\ \A q \in DOMAIN last'.arg[c] :
                    IF Len(last'.arg[c][q]) <= _min_points
                    THEN database'.d[c][q] = np_histogram(last'.arg[c][q], CoarseBins)
                    ELSE database'.d[c][q] \in AdaptiveHistograms
       /\ most_frequent => database' = database]_vars
\* an update has left the one component c2 with the one parameter a, a
\* constant ensemble binned in the coarse histogram: both values in bin 5
C14_Witness ==
    /\ last.op = "update" /\ database.some
    /\ DOMAIN last.arg = {"c2"}
    /\ DOMAIN database.d = {"c2"}
    /\ DOMAIN database.d["c2"] = {"a"}
    /\ Len(database.d["c2"]["a"].hist) = CoarseBins
    /\ database.d["c2"]["a"].hist[6] = 2

\* the sequence (0, h[0], ..., h[n-1]) read circularly, at position i of 0..n+1
Circular(h, i) == IF i = 0 \/ i = Len(h) + 1 THEN 0 ELSE h[i]
\* the positions i of 1..n greater than both circular neighbours, ascending
ClaimedMaxima(h) ==
    SelectSeq([i \in 1..Len(h) |-> i],
              LAMBDA i : h[i] > Circular(h, i - 1) /\ h[i] > Circular(h, i + 1))
\* e[i-1] + e[i] (twice the midpoint) for these positions, e counted from 0
ClaimedMiddles(x) ==
    [k \in 1..Len(ClaimedMaxima(x.hist)) |->
        x.bin_edges[ClaimedMaxima(x.hist)[k]] + x.bin_edges[ClaimedMaxima(x.hist)[k] + 1]]

C21_AssignCurrentValueToAll ==
    [][\A p \in Params :
        (/\ last'.op = "assign_current_value_to_all"
         /\ last'.p = p
         /\ last'.raised = None
         /\ CanBroadcast(map[p].noe, _getvalue(p).v)) =>
            LET mk == DefaultMask(map[p], last'.arg)
            IN  \A i \in 1..Len(map[p].cells) :
                  IF i \in Selected(mk)
                  THEN /\ map'[p].cells[i].values =
                               Broadcast(map[p].noe, _getvalue(p).v)
                       /\ map'[p].cells[i].is_set = TRUE
                       /\ std[p] # NoStd =>
                            map'[p].cells[i].std = Broadcast(map[p].noe, std[p])
                  ELSE map'[p].cells[i] = map[p].cells[i]]_vars

\* the lower bound is not above the upper one (an absent bound never is)
Ordered(lo, hi) == (lo.some /\ hi.some) => lo.v <= hi.v

\* C22: the bounds invariant.  In every state reached through value
\* assignments, bound assignments, ext_bounded / ext_force_positive toggles,
\* changes of the number of elements and twin assignments and clearings, an
\* untwinned parameter with ext_bounded = True and bmin <= bmax has every
\* element of its stored value within [bmin, bmax], a None bound not
\* constraining.
C22_BoundsInvariant ==
    \A p \in Params :
        (/\ twin[p] = None
         /\ ext_bounded[p]
         /\ Ordered(_get_bmin(p), _get_bmax(p))) =>
            Within(value[p].e, _get_bmin(p), _get_bmax(p))

\* the number of times p appears in the list s
Occurrences(s, p) == Cardinality({i \in 1..Len(s) : s[i] = p})

\* C23: back-reference consistency.  After any sequence of twin assignments
\* (re-pointing a twin without clearing, assigning the same twin twice and
\* clearing included), a parameter P is in the dependent set _twins of a
\* parameter T exactly when P.twin is T, and it appears there at most once.
C23_BackReferences ==
    \A P \in Params : \A T \in Params :
        /\ In(P, twins_of(T)) <=> twin[P] = T
        /\ Occurrences(twins_of(T), P) <= 1

====
